---- MODULE Spec2Model ----
(***************************************************************************)
(* Model of package pages (hkjn.me/pages): Page.ServeHTTP, ShowError,      *)
(* the Result constructors and Values.AddTo.                               *)
(*                                                                         *)
(* Strings that are URL-encoded are sequences of one-character strings, so *)
(* that escaping, sorting and joining are computed as net/url computes     *)
(* them.  A response sink (http.ResponseWriter) is a record holding the    *)
(* status passed to the first WriteHeader, the body chunks written and the *)
(* Location header.                                                        *)
(***************************************************************************)
EXTENDS Integers, Sequences, FiniteSets, TLC

\* ------------------------------------------------------------------ bounds
NumRequests == 2
MaxPairs == 2
MaxCalls == 2

\* ------------------------------------------------- net/http status codes
HttpStatusOK == 200
HttpStatusSeeOther == 303
HttpStatusBadRequest == 400
HttpStatusUnauthorized == 401
HttpStatusNotFound == 404
HttpStatusInternalServerError == 500

\* -------------------------------------------------------------- strings
\* Characters url.QueryEscape leaves alone (letters, digits, - _ . ~).
Unreserved ==
  {"a", "b", "d", "e", "g", "i", "l", "m", "n", "o", "p", "q", "r", "s",
   "t", "u", "v", "y", "I", "P", "_", ".", "2", "3", "5", "6", "B", "D", "F"}

\* Byte values of the characters the model uses (for sorting keys).
CharCode ==
  (" " :> 32) @@ ("%" :> 37) @@ ("&" :> 38) @@ ("+" :> 43) @@ ("." :> 46) @@
  ("/" :> 47) @@ ("=" :> 61) @@ ("?" :> 63) @@ ("a" :> 97) @@ ("b" :> 98)

\* %XX escape of the reserved characters the model uses.
HexEscape ==
  ("%" :> <<"%", "2", "5">>) @@ ("&" :> <<"%", "2", "6">>) @@
  ("+" :> <<"%", "2", "B">>) @@ ("/" :> <<"%", "2", "F">>) @@
  ("=" :> <<"%", "3", "D">>) @@ ("?" :> <<"%", "3", "F">>)

QueryEscapeMutIdentity(s) == s

RECURSIVE QueryEscape(_)
QueryEscape(s) ==
  IF s = <<>> THEN <<>>
  ELSE LET c == Head(s)
           e == IF c \in Unreserved THEN <<c>>
                ELSE IF c = " " THEN <<"+">>
                ELSE HexEscape[c]
       IN e \o QueryEscape(Tail(s))

\* Bytewise s < t, as sort.Strings compares.
RECURSIVE StrLess(_, _)
StrLess(s, t) ==
  IF t = <<>> THEN FALSE
  ELSE IF s = <<>> THEN TRUE
  ELSE IF Head(s) = Head(t) THEN StrLess(Tail(s), Tail(t))
  ELSE CharCode[Head(s)] < CharCode[Head(t)]

RECURSIVE InsertSorted(_, _)
InsertSorted(k, sorted) ==
  IF sorted = <<>> THEN <<k>>
  ELSE IF StrLess(k, Head(sorted)) THEN <<k>> \o sorted
  ELSE <<Head(sorted)>> \o InsertSorted(k, Tail(sorted))

RECURSIVE SortStrings(_)
SortStrings(keys) ==
  IF keys = <<>> THEN <<>>
  ELSE InsertSorted(Head(keys), SortStrings(Tail(keys)))

\* The orders in which a Go range loop may visit the keys of a map.
RangeOrders(m) ==
  LET K == DOMAIN m
      n == Cardinality(K)
  IN {s \in [1..n -> K] : \A k \in K : \E j \in 1..n : s[j] = k}

EmptyMap == [k \in {} |-> <<>>]

\* ------------------------------------------------------- Values / url.Values
RECURSIVE UrlValuesLoop(_, _, _)
UrlValuesLoop(vs, iter, q) ==
  IF iter = <<>> THEN q
  ELSE LET k == Head(iter)
       IN UrlValuesLoop(vs, Tail(iter),
            [x \in DOMAIN q \cup {k} |-> IF x = k THEN <<vs[k]>> ELSE q[x]])

\* Values.UrlValues, visiting the map in the order iter.
UrlValues(vs, iter) == UrlValuesLoop(vs, iter, EmptyMap)

RECURSIVE EncodeValues(_, _, _)
EncodeValues(keyEscaped, vals, buf) ==
  IF vals = <<>> THEN buf
  ELSE EncodeValues(keyEscaped, Tail(vals),
         (IF Len(buf) > 0 THEN buf \o <<"&">> ELSE buf)
           \o keyEscaped \o <<"=">> \o QueryEscape(Head(vals)))

RECURSIVE EncodeLoop(_, _, _)
EncodeLoop(v, keys, buf) ==
  IF keys = <<>> THEN buf
  ELSE EncodeLoop(v, Tail(keys),
         EncodeValues(QueryEscape(Head(keys)), v[Head(keys)], buf))

\* url.Values.Encode: keys collected in range order iter, sorted, then joined.
Encode(v, iter) == EncodeLoop(v, SortStrings(iter), <<>>)

\* Values.AddTo
AddTo(vs, u, iter1, iter2) == u \o <<"?">> \o Encode(UrlValues(vs, iter1), iter2)

\* ---------------------------------------------------- http.ResponseWriter
NoLocation == <<>>

EmptySink ==
  [wroteHeader |-> FALSE, status |-> 0, body |-> <<>>, location |-> NoLocation]

WriteHeader(w, code) ==
  IF w.wroteHeader THEN w
  ELSE [w EXCEPT !.wroteHeader = TRUE, !.status = code]

\* The first Write implies WriteHeader(200).
Write(w, chunk) ==
  LET w1 == WriteHeader(w, HttpStatusOK)
  IN [w1 EXCEPT !.body = Append(@, chunk)]

RECURSIVE WriteAll(_, _)
WriteAll(w, chunks) ==
  IF chunks = <<>> THEN w ELSE WriteAll(Write(w, Head(chunks)), Tail(chunks))

HttpError(w, msg, code) == Write(WriteHeader(w, code), msg)

HttpNotFound(w) == HttpError(w, "404 page not found", HttpStatusNotFound)

\* http.Redirect: Location header, status, then the short anchor body.
HttpRedirect(w, url, code) ==
  LET w1 == IF w.wroteHeader THEN w ELSE [w EXCEPT !.location = url]
  IN Write(WriteHeader(w1, code), "See Other")

\* The server commits status 200 when the handler returns without writing.
FinishRequest(w) == WriteHeader(w, HttpStatusOK)

\* ------------------------------------------------------------------ Result
NoErr == "nil"
Errs == {"e1", "e2"}
NoData == "nil"
Datas == {"v1", "v2"}
NoNext == <<>>
NextURIs == {<<"/">>, <<"/", "a">>}

ZeroResult == [data |-> NoData, responseCode |-> 0, err |-> NoErr, next |-> NoNext]

StatusOK(data) == [ZeroResult EXCEPT !.responseCode = HttpStatusOK, !.data = data]
BadRequestWith(err) == [ZeroResult EXCEPT !.responseCode = HttpStatusBadRequest, !.err = err]
UnauthorizedWith(err) == [ZeroResult EXCEPT !.responseCode = HttpStatusUnauthorized, !.err = err]
InternalErrorWith(err) ==
  [ZeroResult EXCEPT !.responseCode = HttpStatusInternalServerError, !.err = err]
RedirectWith(u) == [ZeroResult EXCEPT !.responseCode = HttpStatusSeeOther, !.next = u]

StatusBadRequest == [ZeroResult EXCEPT !.responseCode = HttpStatusBadRequest]
StatusUnauthorized == [ZeroResult EXCEPT !.responseCode = HttpStatusUnauthorized]
StatusNotFound == [ZeroResult EXCEPT !.responseCode = HttpStatusNotFound]
StatusInternalError == [ZeroResult EXCEPT !.responseCode = HttpStatusInternalServerError]

\* Every Result a Renderer can return: the fields are unexported, so only the
\* zero value, the package variables and the constructors produce one.
Results ==
  {ZeroResult, StatusBadRequest, StatusUnauthorized, StatusNotFound, StatusInternalError}
  \cup {StatusOK(d) : d \in Datas \cup {NoData}}
  \cup {BadRequestWith(e) : e \in Errs \cup {NoErr}}
  \cup {UnauthorizedWith(e) : e \in Errs \cup {NoErr}}
  \cup {InternalErrorWith(e) : e \in Errs \cup {NoErr}}
  \cup {RedirectWith(u) : u \in NextURIs}

\* -------------------------------------------------------- Page and templates
\* A parsed template is a sequence of nodes: "lit" writes fixed text, "F"
\* writes field F of the data and fails when the data has no such field.
RECURSIVE ExecNodes(_, _)
ExecNodes(nodes, data) ==
  IF nodes = <<>> THEN [out |-> <<>>, ok |-> TRUE]
  ELSE IF Head(nodes) = "F" /\ data = NoData THEN [out |-> <<>>, ok |-> FALSE]
  ELSE LET rest == ExecNodes(Tail(nodes), data)
           chunk == IF Head(nodes) = "F" THEN data ELSE "text"
       IN [out |-> <<chunk>> \o rest.out, ok |-> rest.ok]

\* Template.ExecuteTemplate: the chunks written to w before it returned, and
\* whether it returned a nil error.  An undefined name fails before any write.
ExecuteTemplate(t, name, data) ==
  IF name \notin DOMAIN t THEN [out |-> <<>>, ok |-> FALSE]
  ELSE ExecNodes(t[name], data)

Add(uri, tmpls) == [URI |-> uri, tmpl |-> tmpls]

TemplateSets ==
  { ("base" :> <<"lit", "F">>),
    ("base" :> <<"F", "lit">>),
    ("page" :> <<"lit">>) }

DefaultBadRequestMsg ==
  <<"I", "n", "v", "a", "l", "i", "d", " ", "r", "e", "q", "u", "e", "s", "t", ".",
    " ", "P", "l", "e", "a", "s", "e", " ", "t", "r", "y", " ", "a", "g", "a", "i",
    "n", " ", "l", "a", "t", "e", "r", ".">>

DefaultErrorParam == <<"e", "r", "r", "o", "r", "_", "m", "s", "g">>

DefaultConfig ==
  [BaseTemplate |-> "base", BadRequestMsg |-> DefaultBadRequestMsg,
   ErrorParam |-> DefaultErrorParam]

\* The configuration variables are exported and set before serving starts.
Configs ==
  { DefaultConfig,
    [BaseTemplate |-> "page", BadRequestMsg |-> <<"n", "o", " ", "a", "&", "b">>,
     ErrorParam |-> <<"e", "=">>] }

\* -------------------------------------------------------------------- state
VARIABLES
  logger,     \* the registered LoggerFunc: "nil" or "factory"
  alive,      \* FALSE once log.Fatalf has ended the process
  cfg,        \* BaseTemplate, BadRequestMsg, ErrorParam
  page,       \* the Page being served
  pc,         \* per request: position of its handler
  result,     \* per request: the Result its Render returned
  errArg,     \* per request: the error handed to ShowError
  w,          \* per request: the response sink
  logs,       \* per request: the entries logged through its Logger
  trace,      \* per request: the events of its ServeHTTP call, in order
  vs,         \* Values receiver of AddTo
  uri,        \* uri argument of AddTo
  out,        \* result of the latest AddTo call
  prevOut,    \* result of the AddTo call before it
  calls       \* number of AddTo calls made

reqVars == <<pc, result, errArg, w, logs, trace>>
valVars == <<vs, uri, out, prevOut, calls>>
vars == <<logger, alive, cfg, page, pc, result, errArg, w, logs, trace,
          vs, uri, out, prevOut, calls>>

Reqs == 1..NumRequests

InfoEntry == [level |-> "info", err |-> NoErr]
ErrorEntry(e) == [level |-> "error", err |-> e]
TemplateErr == "template"

InitRequests ==
  /\ pc = [i \in Reqs |-> "idle"]
  /\ result = [i \in Reqs |-> ZeroResult]
  /\ errArg = [i \in Reqs |-> NoErr]
  /\ w = [i \in Reqs |-> EmptySink]
  /\ logs = [i \in Reqs |-> <<>>]
  /\ trace = [i \in Reqs |-> <<>>]

InitNoValues ==
  /\ vs = EmptyMap
  /\ uri = <<>>
  /\ out = <<>>
  /\ prevOut = <<>>
  /\ calls = 0

Init ==
  /\ logger = "nil"
  /\ alive = TRUE
  /\ cfg \in Configs
  /\ page \in {Add(<<"/", "a">>, t) : t \in TemplateSets}
  /\ InitRequests
  /\ InitNoValues

\* ------------------------------------------------------------------ actions
SetLogger(l) ==
  /\ alive
  /\ logger' = l
  /\ UNCHANGED <<alive, cfg, page, reqVars, valVars>>

\* The handler's view of one request: its sink, its log and its events.
Errorf(st, e) ==
  [st EXCEPT !.logs = Append(@, ErrorEntry(e)), !.trace = Append(@, "errlog")]

ServeErrorMutLeak(pr, st) ==
  [st EXCEPT !.trace = Append(@, "write"),
             !.w = HttpError(@, pr.err, pr.responseCode)]

\* The response dispatch of the non-OK branch of ServeHTTP.
ServeError(pr, st) ==
  [st EXCEPT
     !.trace = Append(@, "write"),
     !.w = IF pr.responseCode = HttpStatusNotFound THEN HttpNotFound(@)
           ELSE IF pr.responseCode = HttpStatusBadRequest
             THEN HttpError(@, "Bad request", HttpStatusBadRequest)
           ELSE IF pr.responseCode = HttpStatusSeeOther
             THEN HttpRedirect(@, pr.next, HttpStatusSeeOther)
           ELSE HttpError(@, "Internal server error.", pr.responseCode)]

ServeTemplateMutNoData(p, base, pr, st) ==
  LET ex == ExecuteTemplate(p.tmpl, base, NoData)
      s1 == [st EXCEPT !.w = WriteAll(@, ex.out), !.trace = Append(@, "exec")]
  IN IF ex.ok THEN s1
     ELSE LET s2 == Errorf(s1, TemplateErr)
          IN [s2 EXCEPT !.trace = Append(@, "write"),
                        !.w = HttpError(@, "Internal server error.",
                                        HttpStatusInternalServerError)]

ServeTemplateMutNoLog(p, base, pr, st) ==
  LET ex == ExecuteTemplate(p.tmpl, base, pr.data)
      s1 == [st EXCEPT !.w = WriteAll(@, ex.out), !.trace = Append(@, "exec")]
  IN IF ex.ok THEN s1
     ELSE [s1 EXCEPT !.trace = Append(@, "write"),
                     !.w = HttpError(@, "Internal server error.",
                                     HttpStatusInternalServerError)]

\* The OK branch of ServeHTTP: template execution written straight to the
\* sink, and the handling of its failure.
ServeTemplate(p, base, pr, st) ==
  LET ex == ExecuteTemplate(p.tmpl, base, pr.data)
      s1 == [st EXCEPT !.w = WriteAll(@, ex.out), !.trace = Append(@, "exec")]
  IN IF ex.ok THEN s1
     ELSE LET s2 == Errorf(s1, TemplateErr)
          IN [s2 EXCEPT !.trace = Append(@, "write"),
                        !.w = HttpError(@, "Internal server error.",
                                        HttpStatusInternalServerError)]

IsErrorBranch(pr) == pr.err # NoErr \/ pr.responseCode # HttpStatusOK

ServeBodyMutNoReturn(p, c, pr, st) ==
  LET s1 == IF IsErrorBranch(pr)
              THEN ServeError(pr, IF pr.err # NoErr THEN Errorf(st, pr.err) ELSE st)
              ELSE st
  IN ServeTemplate(p, c.BaseTemplate, pr, s1)

\* ServeHTTP from the test of pr to the return.
ServeBody(p, c, pr, st) ==
  IF IsErrorBranch(pr)
    THEN ServeError(pr, IF pr.err # NoErr THEN Errorf(st, pr.err) ELSE st)
    ELSE ServeTemplate(p, c.BaseTemplate, pr, st)

ServeEnterMutNoCheck(i) ==
  /\ alive
  /\ pc[i] = "idle"
  /\ alive' = alive
  /\ pc' = [pc EXCEPT ![i] = "entered"]
  /\ logs' = [logs EXCEPT ![i] = Append(@, InfoEntry)]
  /\ trace' = [trace EXCEPT ![i] = Append(@, "info")]
  /\ UNCHANGED <<logger, cfg, page, result, errArg, w, valVars>>

\* ServeHTTP up to the Infof call; log.Fatalf when no logger is registered.
ServeEnter(i) ==
  /\ alive
  /\ pc[i] = "idle"
  /\ IF logger = "nil"
       THEN /\ alive' = FALSE
            /\ pc' = [pc EXCEPT ![i] = "fatal"]
            /\ UNCHANGED <<logs, trace>>
       ELSE /\ alive' = alive
            /\ pc' = [pc EXCEPT ![i] = "entered"]
            /\ logs' = [logs EXCEPT ![i] = Append(@, InfoEntry)]
            /\ trace' = [trace EXCEPT ![i] = Append(@, "info")]
  /\ UNCHANGED <<logger, cfg, page, result, errArg, w, valVars>>

ServeRenderMutShared(i) ==
  /\ alive
  /\ pc[i] = "entered"
  /\ \E pr \in Results : result' = [j \in Reqs |-> pr]
  /\ pc' = [pc EXCEPT ![i] = "rendered"]
  /\ trace' = [trace EXCEPT ![i] = Append(@, "render")]
  /\ UNCHANGED <<logger, alive, cfg, page, errArg, w, logs, valVars>>

\* pr := p.Render(w, r)
ServeRender(i) ==
  /\ alive
  /\ pc[i] = "entered"
  /\ \E pr \in Results : result' = [result EXCEPT ![i] = pr]
  /\ pc' = [pc EXCEPT ![i] = "rendered"]
  /\ trace' = [trace EXCEPT ![i] = Append(@, "render")]
  /\ UNCHANGED <<logger, alive, cfg, page, errArg, w, logs, valVars>>

\* The rest of ServeHTTP, and the server finishing the response.
ServeRespond(i) ==
  /\ alive
  /\ pc[i] = "rendered"
  /\ LET st == ServeBody(page, cfg, result[i],
                         [w |-> w[i], logs |-> logs[i], trace |-> trace[i]])
     IN /\ w' = [w EXCEPT ![i] = FinishRequest(st.w)]
        /\ logs' = [logs EXCEPT ![i] = st.logs]
        /\ trace' = [trace EXCEPT ![i] = st.trace]
  /\ pc' = [pc EXCEPT ![i] = "done"]
  /\ UNCHANGED <<logger, alive, cfg, page, result, errArg, valVars>>

ShowErrorURLMutRaw(c, err) ==
  <<"/", "?">> \o c.ErrorParam \o <<"=">> \o c.BadRequestMsg

\* nextUrl of ShowError
ShowErrorURL(c, err) ==
  <<"/", "?">> \o Encode((c.ErrorParam :> <<c.BadRequestMsg>>), <<c.ErrorParam>>)

\* ShowError(w, r, err)
ShowError(i) ==
  /\ alive
  /\ pc[i] = "idle"
  /\ \E e \in Errs \cup {NoErr} :
       /\ errArg' = [errArg EXCEPT ![i] = e]
       /\ IF logger = "nil"
            THEN /\ alive' = FALSE
                 /\ pc' = [pc EXCEPT ![i] = "fatal"]
                 /\ UNCHANGED <<logs, trace, w>>
            ELSE /\ alive' = alive
                 /\ pc' = [pc EXCEPT ![i] = "shown"]
                 /\ LET st == Errorf([w |-> w[i], logs |-> logs[i], trace |-> trace[i]], e)
                    IN /\ logs' = [logs EXCEPT ![i] = st.logs]
                       /\ trace' = [trace EXCEPT ![i] = Append(st.trace, "write")]
                       /\ w' = [w EXCEPT ![i] =
                                  FinishRequest(HttpRedirect(st.w, ShowErrorURL(cfg, e),
                                                             HttpStatusSeeOther))]
  /\ UNCHANGED <<logger, cfg, page, result, valVars>>

Next ==
  \/ \E l \in {"nil", "factory"} : SetLogger(l)
  \/ \E i \in Reqs : ServeEnter(i)
  \/ \E i \in Reqs : ServeRender(i)
  \/ \E i \in Reqs : ServeRespond(i)
  \/ \E i \in Reqs : ShowError(i)

Spec == Init /\ [][Next]_vars

\* --------------------------------------------- Values.AddTo as a state machine
Keys == {<<>>, <<"a">>, <<"b">>, <<"a", "&">>, <<"=">>}
Vals == {<<>>, <<"a">>, <<" ", "b">>, <<"&", "=">>}
URIs == {<<"/", "a">>, <<>>, <<"/", "?">>}

ValuesMaps ==
  UNION {[K -> Vals] : K \in {S \in SUBSET Keys : Cardinality(S) <= MaxPairs}}

InitValues ==
  /\ logger = "nil"
  /\ alive = TRUE
  /\ cfg = DefaultConfig
  /\ page = Add(<<"/", "a">>, ("base" :> <<"lit">>))
  /\ InitRequests
  /\ vs \in ValuesMaps
  /\ uri \in URIs
  /\ out = <<>>
  /\ prevOut = <<>>
  /\ calls = 0

CallAddTo ==
  /\ calls < MaxCalls
  /\ \E iter1 \in RangeOrders(vs) :
       \E iter2 \in RangeOrders(UrlValues(vs, iter1)) :
         out' = AddTo(vs, uri, iter1, iter2)
  /\ prevOut' = out
  /\ calls' = calls + 1
  /\ UNCHANGED <<vs, uri, logger, alive, cfg, page, reqVars>>

NextValues == CallAddTo

SpecValues == InitValues /\ [][NextValues]_vars

\* =================================================================== claims
\* ----- helpers used by the properties only
Done(i) == pc[i] = "done"

TemplateRun(i) == ExecuteTemplate(page.tmpl, cfg.BaseTemplate, result[i].data)

Count(seq, x) == Cardinality({j \in DOMAIN seq : seq[j] = x})

ErrorCount(l) == Cardinality({j \in DOMAIN l : l[j].level = "error"})

Response(status, body, location) ==
  [wroteHeader |-> TRUE, status |-> status, body |-> body, location |-> location]

\* Reading a query string back, as a client of the URL does.
UnescapeChar(h) == CHOOSE c \in DOMAIN HexEscape : HexEscape[c] = h

RECURSIVE QueryUnescape(_)
QueryUnescape(s) ==
  IF s = <<>> THEN <<>>
  ELSE IF Head(s) = "+" THEN <<" ">> \o QueryUnescape(Tail(s))
  ELSE IF Head(s) = "%" /\ Len(s) >= 3
    THEN <<UnescapeChar(SubSeq(s, 1, 3))>> \o QueryUnescape(SubSeq(s, 4, Len(s)))
  ELSE <<Head(s)>> \o QueryUnescape(Tail(s))

\* Index of the first sep in s, or 0.
RECURSIVE IndexFrom(_, _, _)
IndexFrom(s, sep, j) ==
  IF j > Len(s) THEN 0 ELSE IF s[j] = sep THEN j ELSE IndexFrom(s, sep, j + 1)

RECURSIVE ParseQuery(_)
ParseQuery(q) ==
  IF q = <<>> THEN <<>>
  ELSE LET amp == IndexFrom(q, "&", 1)
           seg == IF amp = 0 THEN q ELSE SubSeq(q, 1, amp - 1)
           rest == IF amp = 0 THEN <<>> ELSE SubSeq(q, amp + 1, Len(q))
           eq == IndexFrom(seg, "=", 1)
           k == IF eq = 0 THEN seg ELSE SubSeq(seg, 1, eq - 1)
           v == IF eq = 0 THEN <<>> ELSE SubSeq(seg, eq + 1, Len(seg))
       IN (IF seg = <<>> THEN <<>> ELSE <<[key |-> QueryUnescape(k), val |-> QueryUnescape(v)]>>)
            \o ParseQuery(rest)

\* pairs holds every key of m exactly once, with m's value, and nothing else.
PairsAre(pairs, m) ==
  /\ Len(pairs) = Cardinality(DOMAIN m)
  /\ \A j \in DOMAIN pairs : pairs[j].key \in DOMAIN m /\ pairs[j].val = m[pairs[j].key]
  /\ \A k \in DOMAIN m : Cardinality({j \in DOMAIN pairs : pairs[j].key = k}) = 1

\* C1: every finished request whose Result is not OK carries the status and
\* body of the fixed mapping: 400 "Bad request", 401, 404 not-found, 303 to the
\* Result's target, and 500 "Internal server error." for every other code,
\* the zero-value Result included.
C1_NonOKMapping ==
  \A i \in Reqs :
    (Done(i) /\ result[i].responseCode # HttpStatusOK) =>
      LET pr == result[i]
          r == w[i]
      IN IF pr.responseCode = HttpStatusBadRequest
           THEN r.status = HttpStatusBadRequest /\ r.body = <<"Bad request">>
         ELSE IF pr.responseCode = HttpStatusUnauthorized
           THEN r.status = HttpStatusUnauthorized
         ELSE IF pr.responseCode = HttpStatusNotFound
           THEN r.status = HttpStatusNotFound /\ r.body = <<"404 page not found">>
         ELSE IF pr.responseCode = HttpStatusSeeOther
           THEN r.status = HttpStatusSeeOther /\ r.location = pr.next
         ELSE /\ r.status = HttpStatusInternalServerError
              /\ r.body = <<"Internal server error.">>

\* C2 as stated: every finished request with an OK Result executed the base
\* template exactly once and answered 200 with the template output as body.
C2_OKAlwaysRendered ==
  \A i \in Reqs :
    (Done(i) /\ result[i].responseCode = HttpStatusOK) =>
      /\ Count(trace[i], "exec") = 1
      /\ w[i].status = HttpStatusOK
      /\ w[i].body = TemplateRun(i).out

\* C2 amended: every finished request with an OK Result executed the base
\* template exactly once with the Result's data; when that execution
\* succeeded the response is 200 with the template output as body; and two
\* such requests with the same data have the same response.
C2_OKRendered ==
  \A i \in Reqs :
    (Done(i) /\ result[i].responseCode = HttpStatusOK) =>
      /\ Count(trace[i], "exec") = 1
      /\ TemplateRun(i).ok =>
           w[i] = Response(HttpStatusOK, TemplateRun(i).out, NoLocation)
      /\ \A j \in Reqs :
           (Done(j) /\ result[j] = result[i]) => w[j] = w[i]

C2_Witness ==
  \E i, j \in Reqs :
    /\ i # j /\ Done(i) /\ Done(j)
    /\ result[i] = StatusOK("v1") /\ result[j] = result[i]
    /\ TemplateRun(i).ok /\ Len(w[i].body) = 2

\* C3: a finished ShowError call has logged exactly the raw error at error
\* level before writing, and answered 303 with a Location of "/?" and a query
\* that reads back as the single pair ErrorParam = BadRequestMsg; the response
\* does not depend on the error.
C3_ShowError ==
  \A i \in Reqs :
    pc[i] = "shown" =>
      /\ logs[i] = <<ErrorEntry(errArg[i])>>
      /\ trace[i] = <<"errlog", "write">>
      /\ w[i].status = HttpStatusSeeOther
      /\ Len(w[i].location) >= 2
      /\ SubSeq(w[i].location, 1, 2) = <<"/", "?">>
      /\ PairsAre(ParseQuery(SubSeq(w[i].location, 3, Len(w[i].location))),
                  (cfg.ErrorParam :> cfg.BadRequestMsg))
      /\ \A j \in Reqs : pc[j] = "shown" => w[j] = w[i]

C3_Witness ==
  \E i, j \in Reqs :
    /\ pc[i] = "shown" /\ pc[j] = "shown"
    /\ errArg[i] = "e1" /\ errArg[j] = "e2"
    /\ cfg.ErrorParam = <<"e", "=">>

\* C4: every AddTo call leaves the Values unchanged and returns the uri, then
\* "?", then a query string that reads back as every key of the Values exactly
\* once with its value and no other key; a second call returns the same string.
C4_AddTo ==
  [][calls' = calls + 1 =>
       /\ vs' = vs
       /\ uri' = uri
       /\ Len(out') >= Len(uri) + 1
       /\ SubSeq(out', 1, Len(uri)) = uri
       /\ out'[Len(uri) + 1] = "?"
       /\ PairsAre(ParseQuery(SubSeq(out', Len(uri) + 2, Len(out'))), vs)
       /\ calls >= 1 => out' = out]_vars

C4_Witness ==
  /\ calls = 2
  /\ DOMAIN vs = {<<"a", "&">>, <<"=">>}
  /\ vs[<<"=">>] = <<"&", "=">>
  /\ out = prevOut
  /\ uri = <<"/", "a">>

\* C5: two finished requests whose Results agree on the response code, on the
\* data when the code is OK and on the target when it is a redirect, have the
\* same response, whatever errors are attached.
C5_ErrorNotVisible ==
  \A i, j \in Reqs :
    ( /\ Done(i) /\ Done(j)
      /\ result[i].responseCode = result[j].responseCode
      /\ result[i].responseCode = HttpStatusOK => result[i].data = result[j].data
      /\ result[i].responseCode = HttpStatusSeeOther => result[i].next = result[j].next )
    => w[i] = w[j]

C5_Witness ==
  \E i, j \in Reqs :
    /\ Done(i) /\ Done(j)
    /\ result[i] = InternalErrorWith("e1")
    /\ result[j] = InternalErrorWith("e2")
    /\ logs[i] # logs[j]

C7_TemplateFailure ==
  \A i \in Reqs :
    (Done(i) /\ ~IsErrorBranch(result[i]) /\ ~TemplateRun(i).ok) =>
      /\ ErrorCount(logs[i]) = 1
      /\ w[i].status = HttpStatusInternalServerError
      /\ w[i].body = <<"Internal server error.">>

ErrorPath(i) ==
  \/ result[i].responseCode \in {HttpStatusBadRequest, HttpStatusUnauthorized,
                                 HttpStatusNotFound, HttpStatusInternalServerError}
  \/ (~IsErrorBranch(result[i]) /\ ~TemplateRun(i).ok)

\* C8 as stated: a finished request on an error path has exactly one
\* error-level log entry, and one that ended with a successful OK response
\* has none.
C8_ErrorPathLoggedOnce ==
  \A i \in Reqs :
    Done(i) =>
      /\ ErrorPath(i) => ErrorCount(logs[i]) = 1
      /\ (~IsErrorBranch(result[i]) /\ TemplateRun(i).ok) => ErrorCount(logs[i]) = 0

\* C8 amended: a finished request has exactly one error-level log entry when
\* its Result carries an attached error or its template execution failed, and
\* none otherwise.
C8_AttachedErrorLoggedOnce ==
  \A i \in Reqs :
    Done(i) =>
      ErrorCount(logs[i]) =
        IF result[i].err # NoErr \/ (~IsErrorBranch(result[i]) /\ ~TemplateRun(i).ok)
          THEN 1 ELSE 0

C8_Witness ==
  \E i, j \in Reqs :
    /\ Done(i) /\ Done(j)
    /\ result[i] = StatusNotFound /\ ErrorCount(logs[i]) = 0
    /\ result[j] = StatusOK(NoData) /\ ~TemplateRun(j).ok /\ ErrorCount(logs[j]) = 1

\* The response a Result gets on a Page and configuration, served alone.
AloneResponse(p, c, pr) ==
  LET ex == ExecuteTemplate(p.tmpl, c.BaseTemplate, pr.data)
      failText == <<"Internal server error.">>
  IN IF pr.responseCode = HttpStatusOK
       THEN IF ex.ok THEN Response(HttpStatusOK, ex.out, NoLocation)
            ELSE Response(IF ex.out = <<>> THEN HttpStatusInternalServerError
                          ELSE HttpStatusOK, ex.out \o failText, NoLocation)
     ELSE IF pr.responseCode = HttpStatusNotFound
       THEN Response(HttpStatusNotFound, <<"404 page not found">>, NoLocation)
     ELSE IF pr.responseCode = HttpStatusBadRequest
       THEN Response(HttpStatusBadRequest, <<"Bad request">>, NoLocation)
     ELSE IF pr.responseCode = HttpStatusSeeOther
       THEN Response(HttpStatusSeeOther, <<"See Other">>, pr.next)
     ELSE Response(pr.responseCode, failText, NoLocation)

IsServeStep(i) ==
  \/ pc[i] = "idle" /\ pc'[i] \in {"entered", "fatal"} /\ errArg'[i] = errArg[i]
  \/ pc[i] = "entered" /\ pc'[i] = "rendered"
  \/ pc[i] = "rendered" /\ pc'[i] = "done"

\* C9: a step of one ServeHTTP call changes neither the Page nor the
\* configuration nor the logger factory nor anything of another request, and
\* the response it finishes with is the one its Result gets when served alone.
C9_NoInterference ==
  [][\A i \in Reqs :
       IsServeStep(i) =>
         /\ page' = page /\ cfg' = cfg /\ logger' = logger
         /\ \A j \in Reqs \ {i} :
              /\ pc'[j] = pc[j] /\ result'[j] = result[j] /\ w'[j] = w[j]
              /\ logs'[j] = logs[j] /\ trace'[j] = trace[j]
         /\ pc'[i] = "done" => w'[i] = AloneResponse(page, cfg, result[i])]_vars

C9_Witness ==
  \E i, j \in Reqs :
    /\ Done(i) /\ pc[j] = "rendered"
    /\ result[i] = StatusOK("v2") /\ result[j] = BadRequestWith("e1")
    /\ w[i].body # <<>> /\ w[j] = EmptySink

\* C10: the events of a ServeHTTP call are the info log, then one Render call,
\* then for a non-OK Result the optional error log and one write with no
\* template execution, or for an OK Result the template execution; nothing is
\* written before Render has returned.
C10_EventOrder ==
  \A i \in Reqs :
    /\ pc[i] \in {"idle", "fatal"} => trace[i] = <<>> /\ w[i] = EmptySink
    /\ pc[i] = "entered" => trace[i] = <<"info">> /\ w[i] = EmptySink
    /\ pc[i] = "rendered" => trace[i] = <<"info", "render">> /\ w[i] = EmptySink
    /\ Done(i) =>
         IF result[i].responseCode # HttpStatusOK
           THEN trace[i] = <<"info", "render">>
                             \o (IF result[i].err # NoErr THEN <<"errlog">> ELSE <<>>)
                             \o <<"write">>
           ELSE /\ Len(trace[i]) >= 3
                /\ SubSeq(trace[i], 1, 3) = <<"info", "render", "exec">>
                /\ Count(trace[i], "render") = 1
                /\ Count(trace[i], "exec") = 1

C10_Witness ==
  \E i, j \in Reqs :
    /\ Done(i) /\ Done(j)
    /\ result[i] = UnauthorizedWith("e2")
    /\ trace[i] = <<"info", "render", "errlog", "write">>
    /\ result[j] = StatusOK("v1")
    /\ trace[j] = <<"info", "render", "exec">>

====
